---- MODULE Spec2Model ----
(***************************************************************************)
(* State-machine model of the note-taker request-rate limiter              *)
(* (lib/rate-limiter.ts), its caller the Clerk middleware                  *)
(* (src/middleware.ts), and the Clerk webhook verifier                     *)
(* (src/lib/webhook-utils.ts) with its route handler.                      *)
(***************************************************************************)
EXTENDS Integers, Sequences, FiniteSets, Bags, TLC

(***************************************************************************)
(* Bounds of the explored workload (not program constants).                *)
(***************************************************************************)
\* The clock runs over MaxWindows window lengths ...
MaxWindows == 1
\* ... and over MaxJitter single milliseconds past each window boundary.
MaxJitter == 1
\* Direct isAllowed calls explored when several limiters / identifiers are
\* mixed; one identifier calling one limiter alone is explored without this
\* budget.
MaxCalls == 2
\* Calls explored beyond maxRequests inside one window.
MaxOver == 2
\* Middleware invocations in flight at once.
MaxInFlight == 2
\* Invocations race each other towards isAllowed on the limiters with
\* maxRequests <= MaxRacedQuota and come one at a time on the larger ones.
MaxRacedQuota == 10
MaxElapsed == 1
\* Calls of a run that studies the sweep, beyond which only calls that sweep
\* a Map holding a stale entry are made.
MaxSweepCalls == 3
\* Window lengths the clock covers in the runs that count admissions per
\* interval.
MaxSlidingWindows == 2
\* Seconds a run of the middleware can be held up between isAllowed and the
\* building of its 429 response.
MaxPauseSeconds == 1

VARIABLES
  requests,   \* requests[l]: the Map of limiter l, identifier -> {count, resetTime}
  now,        \* the value Date.now() returns
  last,       \* history: the most recent isAllowed call, its pre/post window and result
  seen,       \* history: seen[l][id], calls for id since its window was opened
  admitted,   \* history: admitted[l][id], calls answered allowed:true since then
  opened,     \* history: opened[l][id], the time that window was opened, -1 if never
  unswept,    \* history: unswept[l], the Map of limiter l had no call run cleanup
  regressed,  \* history: the clock has been set back
  stamps,     \* history: stamps[l][id][t], calls for id answered allowed:true at time t
              \* (kept in the runs of SpecSliding)
  issued,     \* history: calls / requests issued so far, saturating at MaxCalls
  inflight,   \* the bag of middleware invocations suspended at an await
  done,       \* the request and response of the invocation returning in this step
  vin,        \* the arguments of a verifyClerkWebhook call
  vout,       \* what that call returned, "pending" before it has
  hook,       \* the webhook POST handler: its request and its position
  hookOut,    \* the response of the webhook POST handler that returned last
  WEBHOOK_SECRET, \* process.env.CLERK_WEBHOOK_SECRET at load, "" when unset
  hin,        \* a signature header handed to both webhook-utils checks
  hout,       \* what the two checks returned for it
  idin,       \* the arguments of a getClientIdentifier call
  idout       \* what that call returned, "" before it has

limiterVars == <<requests, last, seen, admitted, opened, unswept, regressed, stamps>>
headerVars == <<hin, hout>>
identVars == <<idin, idout>>
webVars == <<vin, vout, hook, hookOut, WEBHOOK_SECRET, hin, hout, idin, idout>>
vars == <<requests, now, last, seen, admitted, opened, unswept, regressed, stamps,
          issued,
          inflight, done,
          vin, vout, hook, hookOut, WEBHOOK_SECRET, hin, hout, idin, idout>>

(***************************************************************************)
(* rate-limiter.ts: the four limiters.                                     *)
(***************************************************************************)
rateLimiters ==
  [ai    |-> [windowMs |-> 60 * 1000, maxRequests |-> 5],
   api   |-> [windowMs |-> 60 * 1000, maxRequests |-> 100],
   auth  |-> [windowMs |-> 60 * 1000, maxRequests |-> 10],
   notes |-> [windowMs |-> 60 * 1000, maxRequests |-> 50]]

Limiters == DOMAIN rateLimiters

\* Identifiers as getClientIdentifier builds them.
Identifiers == {"user:u1", "ip:1.2.3.4"}

\* Each RateLimiter instance owns its Map (a field initialiser, not a static).
MapOfShared(l) == "ai"
MapOf(l) == l

\* now > resetTime: the window has expired (isAllowed and cleanup use the same test).
ExpiredLate(t, data) == t > data.resetTime + 1
Expired(t, data) == t > data.resetTime

\* The window stored for a first or post-expiry call.
NewWindowEmpty(t, windowMs) == [count |-> 0, resetTime |-> t + windowMs]
NewWindow(t, windowMs) == [count |-> 1, resetTime |-> t + windowMs]

\* requestData.count >= this.maxRequests
AtLimitOffByOne(data, maxRequests) == data.count > maxRequests
AtLimit(data, maxRequests) == data.count >= maxRequests

\* requestData.count++
IncrementLost(data) == data
Increment(data) == [data EXCEPT !.count = @ + 1]

\* Map.set
MapSet(m, k, v) == [x \in DOMAIN m \cup {k} |-> IF x = k THEN v ELSE m[x]]

\* cleanup(now): delete every entry with now > resetTime.
cleanupNone(m, t) == m
cleanupAll(m, t) == [k \in {} |-> m[k]]
cleanup(m, t) == [k \in {x \in DOMAIN m : ~Expired(t, m[x])} |-> m[k]]

\* isAllowed(identifier) on a limiter whose Map is m, at Date.now() = t;
\* sweep is the outcome of Math.random() < 0.01.  Returns the Map after the
\* call and the object returned to the caller.
isAllowed(m, windowMs, maxRequests, identifier, t, sweep) ==
  LET had == identifier \in DOMAIN m
      m1  == IF sweep THEN cleanup(m, t) ELSE m
  IN  IF ~had \/ Expired(t, m[identifier])
      THEN [map    |-> MapSet(m1, identifier, NewWindow(t, windowMs)),
            result |-> [allowed |-> TRUE,
                        remaining |-> maxRequests - 1,
                        resetTime |-> t + windowMs]]
      ELSE IF AtLimit(m[identifier], maxRequests)
      THEN [map    |-> m1,
            result |-> [allowed |-> FALSE,
                        resetTime |-> m[identifier].resetTime,
                        remaining |-> 0]]
      ELSE LET bumped == Increment(m[identifier])
           IN  [map    |-> IF identifier \in DOMAIN m1
                           THEN MapSet(m1, identifier, bumped)
                           ELSE m1,
                 result |-> [allowed |-> TRUE,
                             remaining |-> maxRequests - bumped.count,
                             resetTime |-> bumped.resetTime]]

(***************************************************************************)
(* History bookkeeping (not program state).                                *)
(***************************************************************************)
NoWindow == [count |-> 0, resetTime |-> 0]

NoCall ==
  [limiter |-> "none", identifier |-> "none", at |-> 0, had |-> FALSE,
   before |-> NoWindow, after |-> NoWindow,
   result |-> [allowed |-> FALSE, remaining |-> 0, resetTime |-> 0]]

\* A call for id at time t opens a window: none is stored, or the stored one
\* has run out.
Opens(l, id, t) ==
  IF id \in DOMAIN requests[l] THEN t > requests[l][id].resetTime ELSE TRUE

\* The instants the clock takes.
Instants ==
  {w * rateLimiters[l].windowMs + j :
     w \in 0..MaxWindows, j \in 0..MaxJitter, l \in Limiters}

TickSteps == {1} \cup {rateLimiters[l].windowMs : l \in Limiters}

\* Identifier id on limiter l is the only caller so far.
OnlyStream(l, id) ==
  \A l2 \in Limiters, id2 \in Identifiers :
    (l2 # l \/ id2 # id) => opened[l2][id2] = -1

MayCall(l, id) ==
  /\ IF Opens(l, id, now) THEN TRUE
     ELSE seen[l][id] < rateLimiters[l].maxRequests + MaxOver
  /\ IF issued < MaxCalls THEN TRUE ELSE OnlyStream(l, id)

\* The effect of one isAllowed call on limiter l on every variable.
Call(l, id, sweep) ==
  LET cfg == rateLimiters[l]
      m   == requests[MapOf(l)]
      r   == isAllowed(m, cfg.windowMs, cfg.maxRequests, id, now, sweep)
      had == id \in DOMAIN m
      o   == Opens(l, id, now)
  IN  /\ requests' = [requests EXCEPT ![MapOf(l)] = r.map]
      /\ last' = [limiter |-> l, identifier |-> id, at |-> now, had |-> had,
                  before |-> IF had THEN m[id] ELSE NoWindow,
                  after  |-> IF id \in DOMAIN r.map THEN r.map[id] ELSE NoWindow,
                  result |-> r.result]
      /\ opened' = [opened EXCEPT ![l][id] = IF o THEN now ELSE @]
      /\ seen' = [seen EXCEPT ![l][id] = IF o THEN 1 ELSE @ + 1]
      /\ admitted' = [admitted EXCEPT ![l][id] =
                        (IF o THEN 0 ELSE @) + (IF r.result.allowed THEN 1 ELSE 0)]
      /\ unswept' = [unswept EXCEPT ![MapOf(l)] =
                       isAllowed(@, cfg.windowMs, cfg.maxRequests, id, now, FALSE).map]
      /\ regressed' = regressed

\* What that call returns.
Decision(l, id, sweep) ==
  isAllowed(requests[MapOf(l)], rateLimiters[l].windowMs,
            rateLimiters[l].maxRequests, id, now, sweep).result

Issue == issued' = IF issued < MaxCalls THEN issued + 1 ELSE issued

\* The instants the clock takes in the runs that count admissions per
\* interval.
SlidingInstants ==
  {w * rateLimiters[l].windowMs + j :
     w \in 0..MaxSlidingWindows, j \in 0..MaxJitter, l \in Limiters}

NoStamps == [l \in Limiters |-> [id \in Identifiers |-> [t \in SlidingInstants |-> 0]]]

(***************************************************************************)
(* rate-limiter.ts: identifiers and responses.                             *)
(***************************************************************************)
\* Math.ceil(a / b) for b > 0.
CeilAsFloor(a, b) == a \div b
Ceil(a, b) == -((-a) \div b)

\* The first comma-separated element of x-forwarded-for; the header is kept
\* as the sequence of its elements, << >> when the header is absent.
FirstHopLast(forwarded) ==
  IF forwarded = << >> THEN "" ELSE forwarded[Len(forwarded)]
FirstHop(forwarded) == IF forwarded = << >> THEN "" ELSE forwarded[1]

\* getClientIdentifier(request, userId); "" stands for a missing userId.
getClientIdentifier(request, userId) ==
  IF userId # ""
  THEN "user:" \o userId
  ELSE LET ip == IF FirstHop(request.forwarded) # "" THEN FirstHop(request.forwarded)
                 ELSE IF request.realIp # "" THEN request.realIp
                 ELSE "unknown"
       IN  "ip:" \o ip

\* The getClientIdentifier calls explored: x-forwarded-for absent, empty,
\* with one or two elements, with an empty first element; x-real-ip absent
\* or present; userId missing or present.
IdentInputs ==
  [forwarded : {<< >>, <<"">>, <<"1.2.3.4">>, <<"1.2.3.4", " 5.6.7.8">>,
                <<"", "5.6.7.8">>, <<" 1.2.3.4">>, <<"unknown", "1.2.3.4">>},
   realIp : {"", "9.9.9.9", "1.2.3.4"},
   userId : {"", "u1", "u2"}]

NoIdentInput == [forwarded |-> << >>, realIp |-> "", userId |-> ""]

\* Responses: kind "next" is NextResponse.next(), "json" a NextResponse.json,
\* "thrown" the rejection of the handler's promise; headers maps the
\* rate-limit header names that are set to their values; resetTime is the
\* body's resetTime in milliseconds (the code prints it in ISO-8601), 0 when
\* the body has none.
Plain == [kind |-> "next", status |-> 200, headers |-> << >>, resetTime |-> 0]

Thrown == [kind |-> "thrown", status |-> 0, headers |-> << >>, resetTime |-> 0]

\* createRateLimitResponse(resetTime, remaining), building it at Date.now() = t.
createRateLimitResponse(resetTime, remaining, t) ==
  [kind |-> "json", status |-> 429,
   headers |-> [h \in {"X-RateLimit-Limit", "X-RateLimit-Remaining",
                       "X-RateLimit-Reset", "Retry-After"} |->
                  CASE h = "X-RateLimit-Limit" -> 5
                    [] h = "X-RateLimit-Remaining" -> remaining
                    [] h = "X-RateLimit-Reset" -> Ceil(resetTime, 1000)
                    [] h = "Retry-After" -> Ceil(resetTime - t, 1000)],
   resetTime |-> resetTime]

\* addRateLimitHeaders(response, remaining, resetTime)
addRateLimitHeaders(response, remaining, resetTime) ==
  [response EXCEPT !.headers =
     [h \in DOMAIN response.headers \cup {"X-RateLimit-Remaining", "X-RateLimit-Reset"} |->
        CASE h = "X-RateLimit-Remaining" -> remaining
          [] h = "X-RateLimit-Reset" -> Ceil(resetTime, 1000)
          [] OTHER -> response.headers[h]]]

(***************************************************************************)
(* middleware.ts                                                           *)
(***************************************************************************)
\* The request paths explored.
Paths ==
  {"/", "/dashboard", "/sign-in", "/api/notes", "/api/generate-note",
   "/api/tags/suggest", "/api/clerk-webhook"}

\* The session's user id a request carries, "" when it carries none.
Sessions == {"", "u1"}

\* The requests explored: every path with and without a session, but for
\* the two general API paths, one of which is explored with a session and
\* the other (the webhook, which Clerk's servers post) without.
Requests ==
  {r \in [path : Paths, session : Sessions, forwarded : {<<"1.2.3.4">>}, realIp : {""}] :
     /\ r.path = "/api/tags/suggest" => r.session # ""
     /\ r.path = "/api/clerk-webhook" => r.session = ""}

\* The route matchers, on the paths explored.
isProtectedRoute(p) == p \in {"/dashboard", "/api/notes", "/api/generate-note"}
isPublicRoute(p) == p \in {"/", "/sign-in", "/api/clerk-webhook"}
isAIRoute(p) == p \in {"/api/generate-note"}
isNotesAPIRoute(p) == p \in {"/api/notes"}
isAuthRoute(p) == p \in {"/sign-in"}
startsWithApi(p) ==
  p \in {"/api/notes", "/api/generate-note", "/api/tags/suggest", "/api/clerk-webhook"}

\* The branch of the if / else-if chain a request takes, named by the
\* limiter it consults; "none" when it consults no limiter.
RouteClassApiFirst(p) ==
  IF startsWithApi(p) THEN "api"
  ELSE IF isAIRoute(p) THEN "ai"
  ELSE IF isNotesAPIRoute(p) THEN "notes"
  ELSE IF isAuthRoute(p) THEN "auth"
  ELSE "none"
RouteClass(p) ==
  IF isAIRoute(p) THEN "ai"
  ELSE IF isNotesAPIRoute(p) THEN "notes"
  ELSE IF isAuthRoute(p) THEN "auth"
  ELSE IF startsWithApi(p) THEN "api"
  ELSE "none"

\* The userId the branch hands to getClientIdentifier.
BranchUserAlways(req) == req.session
BranchUser(req) == IF RouteClass(req.path) = "auth" THEN "" ELSE req.session

NoRequest == [path |-> "", session |-> "", forwarded |-> << >>, realIp |-> ""]

NoneDone == [req |-> NoRequest, response |-> Plain]

NoResult == [allowed |-> TRUE, remaining |-> 0, resetTime |-> 0]

\* The handler from the end of the rate-limit branch on: the 429 of a denied
\* request, the headers of an admitted one, then the authentication logic up
\* to its return or its await of auth.protect().  limited says whether a
\* limiter was consulted and r is what it answered; t is the clock read by
\* createRateLimitResponse.
Continue(req, limited, r, t) ==
  IF limited /\ ~r.allowed
  THEN [pc |-> "returned",
        response |-> createRateLimitResponse(r.resetTime, r.remaining, t)]
  ELSE LET response == IF limited /\ r.resetTime # 0
                       THEN addRateLimitHeaders(Plain, r.remaining, r.resetTime)
                       ELSE Plain
       IN  IF isPublicRoute(req.path) THEN [pc |-> "returned", response |-> response]
           ELSE IF isProtectedRoute(req.path)
                THEN [pc |-> "finalProtect", response |-> response]
                ELSE [pc |-> "returned", response |-> response]

\* The bag of invocations and the response returned, when the invocations
\* in bag old (one, or none for an arriving request) run to position c.
Settle(old, req, c) ==
  IF c.pc = "returned"
  THEN /\ inflight' = inflight (-) old
       /\ done' = [req |-> req, response |-> c.response]
  ELSE /\ inflight' = (inflight (-) old) (+)
                        SetToBag({[pc |-> c.pc, req |-> req, response |-> c.response]})
       /\ done' = NoneDone

\* The rate-limit branch from its isAllowed call on.
Consult(old, req, sweep, t) ==
  LET l  == RouteClass(req.path)
      id == getClientIdentifier(req, BranchUser(req))
  IN  /\ t > now + 1 => ~Decision(l, id, sweep).allowed
      /\ Call(l, id, sweep)
      /\ Settle(old, req, Continue(req, TRUE, Decision(l, id, sweep), t))
      /\ now' = t
      /\ UNCHANGED stamps

\* The handler leaves the try block without having consulted a limiter.
SkipWithHeaders(old, req) ==
  /\ Settle(old, req, Continue(req, TRUE, [NoResult EXCEPT !.resetTime = 1], now))
  /\ UNCHANGED <<limiterVars, now>>
Skip(old, req) ==
  /\ Settle(old, req, Continue(req, FALSE, NoResult, now))
  /\ UNCHANGED <<limiterVars, now>>

\* The clock values a second Date.now() of the same synchronous run may
\* read: the same or the next millisecond, or, once in a run, one that is
\* MaxPauseSeconds later.
LaterReads ==
  {t \in Instants \cup {now} : now <= t /\ t <= now + 1} \cup
  (IF now \in Instants THEN {now + 1000 * MaxPauseSeconds} ELSE {})

Suspended == BagToSet(inflight)

SameTarget(r1, r2) ==
  /\ RouteClass(r1.path) = RouteClass(r2.path)
  /\ getClientIdentifier(r1, BranchUser(r1)) = getClientIdentifier(r2, BranchUser(r2))

\* The workload explored: all requests of a run address one limiter under
\* one identifier; a request arrives only while every invocation in flight
\* is still on its way to isAllowed; see MaxRacedQuota and MaxOver.
MayArrive(req) ==
  LET l  == RouteClass(req.path)
      id == getClientIdentifier(req, BranchUser(req))
      n  == BagCardinality(inflight)
  IN  /\ n < MaxInFlight
      /\ \A h \in Suspended : SameTarget(h.req, req) /\ h.pc # "finalProtect"
      /\ OnlyStream(l, id)
      /\ IF l = "none" THEN TRUE
         ELSE /\ rateLimiters[l].maxRequests > MaxRacedQuota => n = 0
              /\ IF Opens(l, id, now) THEN TRUE
                 ELSE seen[l][id] + n < rateLimiters[l].maxRequests + MaxOver

(***************************************************************************)
(* webhook-utils.ts.  A string is the sequence of its pieces: single       *)
(* characters, except that the text of a request body, which the code      *)
(* only hashes and parses, is one piece.  The empty sequence also stands   *)
(* for null and undefined, which the code tests only for falsiness.        *)
(***************************************************************************)
\* SHA-256 digests are 32 bytes, 64 hex characters.
DigestBytes == 32

HexDigits == <<"0", "1", "2", "3", "4", "5", "6", "7", "8", "9",
               "a", "b", "c", "d", "e", "f">>

UpperHex == <<"0", "1", "2", "3", "4", "5", "6", "7", "8", "9",
              "A", "B", "C", "D", "E", "F">>

\* The request bodies delivered to the webhook route.
BodyCreated == "{\"type\":\"user.created\",\"object\":\"event\",\"data\":{\"id\":\"u1\"}}"

BodyUpdated == "{\"type\":\"user.updated\",\"object\":\"event\",\"data\":{\"id\":\"u1\"}}"

BodyDeleted == "{\"type\":\"user.deleted\",\"object\":\"event\",\"data\":{\"id\":\"u1\"}}"

BodySession == "{\"type\":\"session.created\",\"object\":\"event\",\"data\":{\"user_id\":\"u1\"}}"

BodyOther == "{\"type\":\"email.created\",\"object\":\"event\",\"data\":{}}"

BodyNullData == "{\"type\":\"user.created\",\"object\":\"event\",\"data\":null}"

BodyNumberType == "{\"type\":7,\"object\":\"event\",\"data\":{}}"

BodyNoObject == "{\"type\":\"user.created\",\"data\":{\"id\":\"u1\"}}"

BodyNull == "null"

BodyArray == "[]"

BodyCut == "{\"type\":"

BodyTexts ==
  <<BodyCreated, BodyUpdated, BodyDeleted, BodySession, BodyOther,
    BodyNullData, BodyNumberType, BodyNoObject, BodyNull, BodyArray, BodyCut>>

\* The characters, secrets and whole payload texts that occur, in the order
\* that numbers them for Hmac.
Alphabet ==
  HexDigits \o
  <<"A", "B", "C", "D", "E", "F", "t", "v", "=", ",", ".", "z", "x", " ", "-",
    "{", "}", "whsec_test", "whsec_other">> \o BodyTexts

CodeOf(c) == CHOOSE i \in 1..Len(Alphabet) : Alphabet[i] = c

Min(S) == CHOOSE x \in S : \A y \in S : x <= y

\* String.prototype.split(sep) for a one-character separator.
Split(s, sep) ==
  LET seps == {i \in 1..Len(s) : s[i] = sep}
      cut(k) == IF k = 0 THEN 0
                ELSE IF k > Cardinality(seps) THEN Len(s) + 1
                ELSE CHOOSE p \in seps : Cardinality({q \in seps : q < p}) = k - 1
  IN  [k \in 1..(Cardinality(seps) + 1) |-> SubSeq(s, cut(k - 1) + 1, cut(k) - 1)]

\* String.prototype.startsWith
StartsWith(s, prefix) ==
  Len(s) >= Len(prefix) /\ SubSeq(s, 1, Len(prefix)) = prefix

\* parts.find(part => part.startsWith(prefix)), << >> when there is none.
FindPart(parts, prefix) ==
  LET I == {i \in 1..Len(parts) : StartsWith(parts[i], prefix)}
  IN  IF I = {} THEN << >> ELSE parts[Min(I)]

\* part?.substring(n)
SubstringFromIndexOne(part, n) == SubSeq(part, n, Len(part))
Substring(part, n) == SubSeq(part, n + 1, Len(part))

\* The value of a hex digit of either case, -1 for any other character.
UnHex(c) ==
  IF \E i \in 1..16 : HexDigits[i] = c
  THEN (CHOOSE i \in 1..16 : HexDigits[i] = c) - 1
  ELSE IF \E i \in 1..16 : UpperHex[i] = c
  THEN (CHOOSE i \in 1..16 : UpperHex[i] = c) - 1
  ELSE -1

\* Buffer.from(s, 'hex'): one byte per pair of hex digits, ending at the
\* first pair that is not two hex digits; an odd last character is dropped.
FromHex(s) ==
  LET n   == Len(s) \div 2
      bad == {i \in 1..n : UnHex(s[2 * i - 1]) = -1 \/ UnHex(s[2 * i]) = -1}
      m   == IF bad = {} THEN n ELSE Min(bad) - 1
  IN  [i \in 1..m |-> UnHex(s[2 * i - 1]) * 16 + UnHex(s[2 * i])]

\* digest('hex'): two lower-case hex digits per byte.
ToHex(bytes) ==
  [i \in 1..(2 * Len(bytes)) |->
     IF i % 2 = 1 THEN HexDigits[(bytes[(i + 1) \div 2] \div 16) + 1]
     ELSE HexDigits[(bytes[i \div 2] % 16) + 1]]

\* createHmac('sha256', secret).update(message).digest(), taken as
\* collision-free: the digest spells out the key and the message (which
\* fit, for the inputs explored) and is padded with zero bytes.
Hmac(secret, message) ==
  LET raw == <<CodeOf(secret)>> \o [i \in 1..Len(message) |-> CodeOf(message[i])]
  IN  [i \in 1..DigestBytes |-> IF i <= Len(raw) THEN raw[i] ELSE 0]

\* verifyClerkWebhook(payload, signature, secret); secret "" is a missing one.
verifyClerkWebhook(payload, signature, secret) ==
  IF signature = << >> \/ secret = ""
  THEN FALSE
  ELSE LET parts == Split(signature, ",")
           timestamp == Substring(FindPart(parts, <<"t", "=">>), 2)
           providedSignature == Substring(FindPart(parts, <<"v", "1", "=">>), 3)
       IN  IF timestamp = << >> \/ providedSignature = << >>
           THEN FALSE
           ELSE LET signedPayload == timestamp \o <<".">> \o payload
                    expectedSignature == ToHex(Hmac(secret, signedPayload))
                    providedBuffer == FromHex(providedSignature)
                    expectedBuffer == FromHex(expectedSignature)
                IN  IF Len(providedBuffer) # Len(expectedBuffer)
                    THEN FALSE
                    ELSE providedBuffer = expectedBuffer

(***************************************************************************)
(* The verifyClerkWebhook calls explored.                                  *)
(***************************************************************************)
Secrets == {"whsec_test", "whsec_other"}

\* Timestamps: digit strings, and strings with other characters in them.
Timestamps ==
  {<<"1">>, <<"1", "7">>, <<"x">>, <<"1", " ">>, <<"1", ",", "2">>, <<",">>}

Payloads == {<<"a">>, <<"a", "b">>, <<"{", "}">>}

\* The strings that differ from s in exactly one character.
OneCharOff(s) ==
  {[s EXCEPT ![i] = c] : i \in 1..Len(s), c \in {"a", "b", "{", "."}} \ {s}

\* 't=<timestamp>,v1=<digest>'
Header(timestamp, digest) ==
  <<"t", "=">> \o timestamp \o <<",", "v", "1", "=">> \o digest

\* hex(HMAC-SHA256(secret, timestamp + '.' + payload))
Sign(secret, payload, timestamp) ==
  ToHex(Hmac(secret, timestamp \o <<".">> \o payload))

ToUpper(s) ==
  [i \in 1..Len(s) |-> IF UnHex(s[i]) # -1 THEN UpperHex[UnHex(s[i]) + 1] ELSE s[i]]

\* The digest strings handed in after 'v1=', made from the expected one.
Variants ==
  {"exact", "upper", "flipped", "short", "plusNibble", "plusByte", "plusZ",
   "plusJunk", "junkInside", "junk"}

Provided(variant, e) ==
  CASE variant = "exact" -> e
    [] variant = "upper" -> ToUpper(e)
    [] variant = "flipped" -> [e EXCEPT ![Len(e)] = IF @ = "0" THEN "1" ELSE "0"]
    [] variant = "short" -> SubSeq(e, 1, Len(e) - 2)
    [] variant = "plusNibble" -> e \o <<"0">>
    [] variant = "plusByte" -> e \o <<"0", "0">>
    [] variant = "plusZ" -> e \o <<"z">>
    [] variant = "plusJunk" -> e \o <<"z", "z", "0", "0">>
    [] variant = "junkInside" -> [e EXCEPT ![3] = "z"]
    [] variant = "junk" -> <<"z", "z">>

\* A call: the header is made for (secret, signed, timestamp) with the
\* digest string varied, and the payload handed to verifyClerkWebhook is
\* the signed one or one that is one character off.
VerifyInputs ==
  {i \in [secret : Secrets, timestamp : Timestamps, signed : Payloads,
          variant : Variants,
          payload : Payloads \cup UNION {OneCharOff(q) : q \in Payloads}] :
     i.payload = i.signed \/ i.payload \in OneCharOff(i.signed)}

NoInput ==
  [secret |-> "", timestamp |-> << >>, signed |-> << >>, variant |-> "exact",
   payload |-> << >>]

ExpectedOf(i) == Sign(i.secret, i.signed, i.timestamp)

HeaderOf(i) == Header(i.timestamp, Provided(i.variant, ExpectedOf(i)))

\* The default of isWebhookTimestampValid's toleranceSeconds.
toleranceSeconds == 300

Digits == <<"0", "1", "2", "3", "4", "5", "6", "7", "8", "9">>

DigitVal(c) ==
  IF \E i \in 1..10 : Digits[i] = c
  THEN (CHOOSE i \in 1..10 : Digits[i] = c) - 1
  ELSE -1

RECURSIVE DecimalValue(_)
DecimalValue(ds) ==
  IF ds = << >> THEN 0
  ELSE 10 * DecimalValue(SubSeq(ds, 1, Len(ds) - 1)) + DigitVal(ds[Len(ds)])

\* parseInt(s, 10): leading spaces, a sign, then the digits up to the first
\* other character; NaN when there is no digit.
parseInt(s) ==
  LET n     == Len(s)
      first == Min({i \in 1..(n + 1) : IF i = n + 1 THEN TRUE ELSE s[i] # " "})
      sign  == IF first <= n THEN (IF s[first] = "-" THEN -1 ELSE 1) ELSE 1
      signed == IF first <= n THEN s[first] = "-" ELSE FALSE
      start == IF signed THEN first + 1 ELSE first
      stop  == Min({i \in start..(n + 1) :
                      IF i = n + 1 THEN TRUE ELSE DigitVal(s[i]) = -1})
  IN  IF stop = start
      THEN [nan |-> TRUE, value |-> 0]
      ELSE [nan |-> FALSE, value |-> sign * DecimalValue(SubSeq(s, start, stop - 1))]

AbsDropped(x) == x
Abs(x) == IF x < 0 THEN -x ELSE x

\* isWebhookTimestampValid(signature) when Date.now() reads t.
isWebhookTimestampValidAlways(signature, t) == TRUE
isWebhookTimestampValid(signature, t) ==
  LET parts == Split(signature, ",")
      timestampPart == FindPart(parts, <<"t", "=">>)
  IN  IF timestampPart = << >>
      THEN FALSE
      ELSE LET timestamp == parseInt(Substring(timestampPart, 2))
               nowSeconds == t \div 1000
           IN  /\ ~timestamp.nan
               /\ Abs(nowSeconds - timestamp.value) <= toleranceSeconds

\* JSON values, as far as the route looks into them.
Leaf(kind, str) == [kind |-> kind, str |-> str]

Top(kind, keys, type, object, data) ==
  [kind |-> kind, keys |-> keys, type |-> type, object |-> object, data |-> data]

Undefined == Leaf("undefined", "")

Event(type, data) ==
  Top("object", {"type", "object", "data"}, Leaf("string", type),
      Leaf("string", "event"), data)

JsonValue ==
  BodyCreated :> Event("user.created", Leaf("object", "")) @@
  BodyUpdated :> Event("user.updated", Leaf("object", "")) @@
  BodyDeleted :> Event("user.deleted", Leaf("object", "")) @@
  BodySession :> Event("session.created", Leaf("object", "")) @@
  BodyOther :> Event("email.created", Leaf("object", "")) @@
  BodyNullData :> Event("user.created", Leaf("null", "")) @@
  BodyNumberType :>
    Top("object", {"type", "object", "data"}, Leaf("number", ""),
        Leaf("string", "event"), Leaf("object", "")) @@
  BodyNoObject :>
    Top("object", {"type", "data"}, Leaf("string", "user.created"), Undefined,
        Leaf("object", "")) @@
  BodyNull :> Top("null", {}, Undefined, Undefined, Undefined) @@
  BodyArray :> Top("array", {}, Undefined, Undefined, Undefined)

\* JSON.parse(body): the value, or a SyntaxError.
JSONparse(body) ==
  IF Len(body) = 1
  THEN IF body[1] \in DOMAIN JsonValue
       THEN [ok |-> TRUE, value |-> JsonValue[body[1]]]
       ELSE [ok |-> FALSE, value |-> JsonValue[BodyNull]]
  ELSE [ok |-> FALSE, value |-> JsonValue[BodyNull]]

\* isValidClerkWebhook(payload)
isValidClerkWebhook(payload) ==
  /\ payload.kind \in {"object", "array"}
  /\ "data" \in payload.keys
  /\ "type" \in payload.keys
  /\ "object" \in payload.keys
  /\ payload.type.kind = "string"
  /\ payload.object.kind = "string"

(***************************************************************************)
(* The headers handed to verifyClerkWebhook and isWebhookTimestampValid.   *)
(***************************************************************************)
\* Number.prototype.toString for an integer.
RECURSIVE Decimal(_)
Decimal(n) ==
  IF n < 0 THEN <<"-">> \o Decimal(-n)
  ELSE IF n < 10 THEN <<Digits[n + 1]>>
  ELSE Decimal(n \div 10) \o <<Digits[(n % 10) + 1]>>

\* What Date.now() reads, in milliseconds.
HeaderClock == {0, 999, 400000, 400999}

\* The timestamp of the header, in seconds from Math.floor(Date.now() / 1000).
Offsets == {-301, -300, -1, 0, 1, 300, 301}

\* The text after 't=': the decimal number, the number followed or led by
\* another character, or no number at all.
TimestampKinds == {"decimal", "trailing", "leading", "junk", "empty"}

\* The header: both parts, one part only, an empty v1 part, or neither.
HeaderShapes == {"full", "noV1", "noT", "emptyV1", "neither"}

HeaderInputs ==
  [at : HeaderClock, offset : Offsets, kind : TimestampKinds, shape : HeaderShapes]

NoHeaderInput == [at |-> 0, offset |-> 0, kind |-> "empty", shape |-> "neither"]

NotReturned == [returned |-> FALSE, verified |-> FALSE, fresh |-> FALSE]

TimestampText(i) ==
  LET d == Decimal((i.at \div 1000) + i.offset)
  IN  CASE i.kind = "decimal" -> d
        [] i.kind = "trailing" -> d \o <<"x">>
        [] i.kind = "leading" -> <<" ">> \o d
        [] i.kind = "junk" -> <<"x">>
        [] i.kind = "empty" -> << >>

HeaderText(i) ==
  LET ts == TimestampText(i)
      digest == Sign("whsec_test", <<"a">>, ts)
  IN  CASE i.shape = "full" -> Header(ts, digest)
        [] i.shape = "noV1" -> <<"t", "=">> \o ts
        [] i.shape = "noT" -> <<"v", "1", "=">> \o digest
        [] i.shape = "emptyV1" -> Header(ts, << >>)
        [] i.shape = "neither" -> <<"x", "=">> \o ts

(***************************************************************************)
(* The Clerk webhook route (performance.ts, lines 614-753).                *)
(***************************************************************************)
\* The timestamps of the headers delivered.
HookTimestamps == {<<"1">>, <<"3", "6", "0">>, <<"x">>}

\* The clerk-signature header: signed with the configured secret or with
\* another one, carrying the digest signed for another timestamp, without
\* a v1 part, or absent.
SignatureKinds == {"signed", "forged", "redated", "unsigned", "absent"}

\* Another timestamp than the one given.
OtherTimestamp(timestamp) ==
  IF timestamp = <<"1">> THEN <<"3", "6", "0">> ELSE <<"1">>

Signature(kind, timestamp, body) ==
  CASE kind = "signed" -> Header(timestamp, Sign("whsec_test", body, timestamp))
    [] kind = "forged" -> Header(timestamp, Sign("whsec_other", body, timestamp))
    [] kind = "redated" ->
         Header(timestamp, Sign("whsec_test", body, OtherTimestamp(timestamp)))
    [] kind = "unsigned" -> <<"t", "=">> \o timestamp
    [] kind = "absent" -> << >>

Bodies == {<<BodyTexts[i]>> : i \in 1..Len(BodyTexts)} \cup {<< >>}

Deliveries ==
  {[signature |-> Signature(k, ts, b), body |-> b] :
     k \in SignatureKinds, ts \in HookTimestamps, b \in Bodies}

NoDelivery == [signature |-> << >>, body |-> << >>]

NoHook == [pc |-> "idle", req |-> NoDelivery, checkedAt |-> -1, type |-> ""]

\* NextResponse.json(...): ran is the business step made for the request.
Response(status, error, success, action, message, ran) ==
  [status |-> status, error |-> error, success |-> success, action |-> action,
   message |-> message, ran |-> ran]

Failure(status, error, ran) == Response(status, error, FALSE, "", "", ran)

Success(action, message, ran) == Response(200, "", TRUE, action, message, ran)

NoHookOut ==
  [response |-> Response(0, "", FALSE, "", "", "none"), req |-> NoDelivery,
   checkedAt |-> -1]

Returns(response) == [pc |-> "returned", response |-> response, type |-> ""]

\* The outer catch of POST: what the handler answers an exception thrown
\* anywhere in its try block.
OuterCatchMissing == Response(0, "", FALSE, "", "", "thrown")
OuterCatch == Failure(500, "Internal server error", "none")

Awaits(pc, type) == [pc |-> pc, response |-> NoHookOut.response, type |-> type]

\* POST up to 'await req.text()'.
BeforeText(req, secret) ==
  IF req.signature = << >>
  THEN Returns(Failure(401, "Missing signature", "none"))
  ELSE IF secret = ""
  THEN Returns(Failure(500, "Webhook not configured", "none"))
  ELSE Awaits("text", "")

\* The two authentication checks of POST: the error reported, "" for none.
AuthErrorTimestampOnly(body, signature, secret, t) ==
  IF ~isWebhookTimestampValid(signature, t) THEN "Invalid timestamp" ELSE ""
AuthError(body, signature, secret, t) ==
  IF ~isWebhookTimestampValid(signature, t)
  THEN "Invalid timestamp"
  ELSE IF ~verifyClerkWebhook(body, signature, secret)
  THEN "Invalid signature"
  ELSE ""

\* POST from the body read to the next await or the response.  The log
\* line before the switch reads payload.data.id, a TypeError when data is
\* null, which the outer catch answers.
AfterText(req, secret, t) ==
  LET error   == AuthError(req.body, req.signature, secret, t)
      parsed  == JSONparse(req.body)
      payload == parsed.value
  IN  IF error # ""
      THEN Returns(Failure(401, error, "none"))
      ELSE IF ~parsed.ok
      THEN Returns(Failure(400, "Invalid JSON", "none"))
      ELSE IF ~isValidClerkWebhook(payload)
      THEN Returns(Failure(400, "Invalid payload", "none"))
      ELSE IF payload.data.kind = "null"
      THEN Returns(OuterCatch)
      ELSE IF payload.type.str \in {"user.created", "user.updated"}
      THEN Awaits("sync", payload.type.str)
      ELSE IF payload.type.str = "user.deleted"
      THEN Awaits("lookup", payload.type.str)
      ELSE IF payload.type.str \in {"session.created", "session.ended"}
      THEN Returns(Success(payload.type.str, "Session event logged", "none"))
      ELSE Returns(Success("", "Event acknowledged but not processed", "none"))

\* The handler moves on: to its next await, or out with its response.
Proceed(req, checkedAt, c) ==
  IF c.pc = "returned"
  THEN /\ hook' = NoHook
       /\ hookOut' = [response |-> c.response, req |-> req, checkedAt |-> checkedAt]
  ELSE /\ hook' = [pc |-> c.pc, req |-> req, checkedAt |-> checkedAt, type |-> c.type]
       /\ hookOut' = NoHookOut

(***************************************************************************)
(* Actions.                                                                *)
(***************************************************************************)
Init ==
  /\ requests = [l \in Limiters |-> << >>]
  /\ now = 0
  /\ last = NoCall
  /\ seen = [l \in Limiters |-> [id \in Identifiers |-> 0]]
  /\ admitted = [l \in Limiters |-> [id \in Identifiers |-> 0]]
  /\ opened = [l \in Limiters |-> [id \in Identifiers |-> -1]]
  /\ unswept = [l \in Limiters |-> << >>]
  /\ regressed = FALSE
  /\ stamps = NoStamps
  /\ issued = 0
  /\ inflight = EmptyBag
  /\ done = NoneDone
  /\ vin = NoInput
  /\ vout = "pending"
  /\ hook = NoHook
  /\ hookOut = NoHookOut
  /\ WEBHOOK_SECRET = ""
  /\ hin = NoHeaderInput
  /\ hout = NotReturned
  /\ idin = NoIdentInput
  /\ idout = ""

\* Time passes.
Tick ==
  \E d \in TickSteps :
    /\ now + d \in Instants
    /\ now' = now + d
    /\ done' = NoneDone
    /\ UNCHANGED <<limiterVars, issued, inflight, webVars>>

\* rateLimiters[l].isAllowed(id)
IsAllowedCall ==
  \E l \in Limiters, id \in Identifiers, sweep \in BOOLEAN :
    /\ MayCall(l, id)
    /\ Call(l, id, sweep)
    /\ Issue
    /\ UNCHANGED <<now, stamps, inflight, done, webVars>>

Next == Tick \/ IsAllowedCall

Spec == Init /\ [][Next]_vars

\* Date.now() is the wall clock: it can be set back between two calls
\* (explored among the first MaxCalls calls of the runs in which a single
\* identifier calls a single limiter).
ClockSetBack ==
  \E t \in Instants :
    /\ t < now
    /\ issued < MaxCalls
    /\ Cardinality({x \in Limiters \X Identifiers : opened[x[1]][x[2]] # -1}) <= 1
    /\ now' = t
    /\ regressed' = TRUE
    /\ done' = NoneDone
    /\ UNCHANGED <<requests, last, seen, admitted, opened, unswept, stamps, issued,
                   inflight, webVars>>

NextAnyClock == Next \/ ClockSetBack

SpecAnyClock == Init /\ [][NextAnyClock]_vars

\* Runs that study the sweep: all calls of a run go to one limiter; after
\* MaxSweepCalls calls only calls that take the cleanup branch on a Map that
\* holds a stale entry are made.
SameLimiter(l) ==
  \A l2 \in Limiters \ {l}, id2 \in Identifiers : opened[l2][id2] = -1

HoldsStale(l) == \E x \in DOMAIN requests[l] : now > requests[l][x].resetTime

SweepCall(l, id, sweep) ==
  /\ SameLimiter(l)
  /\ IF issued < MaxSweepCalls
     THEN issued' = issued + 1
     ELSE sweep /\ HoldsStale(l) /\ issued' = issued
  /\ Call(l, id, sweep)
  /\ UNCHANGED <<now, stamps, inflight, done, webVars>>

\* isAllowed calls in which Math.random() < 0.01, and the others.
SweepingCall == \E l \in Limiters, id \in Identifiers : SweepCall(l, id, TRUE)

PlainCall == \E l \in Limiters, id \in Identifiers : SweepCall(l, id, FALSE)

NextSweep == Tick \/ PlainCall \/ SweepingCall

\* Calls keep arriving and Math.random() < 0.01 keeps coming true.
SpecSweep == Init /\ [][NextSweep]_vars /\ WF_vars(SweepingCall)

\* The same runs with a clock that is set back once.
SetBackOnce ==
  \E t \in Instants :
    /\ t < now
    /\ ~regressed
    /\ now' = t
    /\ regressed' = TRUE
    /\ done' = NoneDone
    /\ UNCHANGED <<requests, last, seen, admitted, opened, unswept, stamps, issued,
                   inflight, webVars>>

NextSweepAnyClock == NextSweep \/ SetBackOnce

SpecSweepAnyClock == Init /\ [][NextSweepAnyClock]_vars

\* Runs that count the admissions per interval: one identifier calls one
\* limiter, over MaxSlidingWindows window lengths; the clock moves on only
\* from a live window that holds one call or is used up.
Settled ==
  \A l \in Limiters : \A id \in DOMAIN requests[l] :
    now <= requests[l][id].resetTime =>
      (requests[l][id].count = 1 \/ requests[l][id].count >= rateLimiters[l].maxRequests)

Pass ==
  \E d \in TickSteps :
    /\ now + d \in SlidingInstants
    /\ Settled
    /\ now' = now + d
    /\ done' = NoneDone
    /\ UNCHANGED <<limiterVars, issued, inflight, webVars>>

StampedCall ==
  \E l \in Limiters, id \in Identifiers, sweep \in BOOLEAN :
    /\ OnlyStream(l, id)
    /\ IF Opens(l, id, now) THEN TRUE
       ELSE seen[l][id] < rateLimiters[l].maxRequests + MaxOver
    /\ Call(l, id, sweep)
    /\ stamps' = [stamps EXCEPT ![l][id][now] =
                    @ + (IF Decision(l, id, sweep).allowed THEN 1 ELSE 0)]
    /\ UNCHANGED <<now, issued, inflight, done, webVars>>

NextSliding == Pass \/ StampedCall

SpecSliding == Init /\ [][NextSliding]_vars

\* A request reaches the middleware: the handler runs to its first await, or
\* to its return when it meets none.
Arrive ==
  \E req \in Requests, sweep \in BOOLEAN, t \in LaterReads :
    LET l == RouteClass(req.path)
    IN  /\ MayArrive(req)
        /\ UNCHANGED <<issued, webVars>>
        /\ IF l \in {"ai", "notes"}
           THEN /\ inflight' = inflight (+) SetToBag({
                      [pc |-> IF ~isPublicRoute(req.path) THEN "protect" ELSE "auth",
                       req |-> req, response |-> Plain]})
                /\ done' = NoneDone
                /\ UNCHANGED <<limiterVars, now>>
           ELSE IF l = "auth"
           THEN Consult(EmptyBag, req, sweep, t)
           ELSE IF l = "api"
           THEN /\ inflight' = inflight (+) SetToBag({
                      [pc |-> "auth", req |-> req, response |-> Plain]})
                /\ done' = NoneDone
                /\ UNCHANGED <<limiterVars, now>>
           ELSE Skip(EmptyBag, req)

\* The auth.protect() awaited inside the try block resolves, or throws into
\* the catch; it resolves only for a request that carries a session.
ProtectReturns ==
  \E h \in Suspended, ok \in BOOLEAN :
    /\ h.pc = "protect"
    /\ ok => h.req.session # ""
    /\ IF ok
       THEN /\ inflight' = (inflight (-) SetToBag({h})) (+)
                             SetToBag({[h EXCEPT !.pc = "auth"]})
            /\ done' = NoneDone
            /\ UNCHANGED <<limiterVars, now>>
       ELSE Skip(SetToBag({h}), h.req)
    /\ UNCHANGED <<issued, webVars>>

\* The awaited auth() resolves with the session's userId, and the handler
\* runs on through isAllowed; or it throws into the catch.
AuthReturns ==
  \E h \in Suspended, ok \in BOOLEAN, sweep \in BOOLEAN, t \in LaterReads :
    /\ h.pc = "auth"
    /\ IF ok
       THEN Consult(SetToBag({h}), h.req, sweep, t)
       ELSE Skip(SetToBag({h}), h.req)
    /\ UNCHANGED <<issued, webVars>>

\* The auth.protect() of the authentication logic resolves and the handler
\* returns its response, or it throws out of the handler.
FinalProtectReturns ==
  \E h \in Suspended, ok \in BOOLEAN :
    /\ h.pc = "finalProtect"
    /\ ok => h.req.session # ""
    /\ inflight' = inflight (-) SetToBag({h})
    /\ done' = [req |-> h.req, response |-> IF ok THEN h.response ELSE Thrown]
    /\ UNCHANGED <<limiterVars, now, issued, webVars>>

NextMiddleware ==
  Tick \/ Arrive \/ ProtectReturns \/ AuthReturns \/ FinalProtectReturns

SpecMiddleware == Init /\ [][NextMiddleware]_vars

\* verifyClerkWebhook is called on the arguments drawn.
InitVerify ==
  /\ requests = [l \in Limiters |-> << >>]
  /\ now = 0
  /\ last = NoCall
  /\ seen = [l \in Limiters |-> [id \in Identifiers |-> 0]]
  /\ admitted = [l \in Limiters |-> [id \in Identifiers |-> 0]]
  /\ opened = [l \in Limiters |-> [id \in Identifiers |-> -1]]
  /\ unswept = [l \in Limiters |-> << >>]
  /\ regressed = FALSE
  /\ stamps = NoStamps
  /\ issued = 0
  /\ inflight = EmptyBag
  /\ done = NoneDone
  /\ vin \in VerifyInputs
  /\ vout = "pending"
  /\ hook = NoHook
  /\ hookOut = NoHookOut
  /\ WEBHOOK_SECRET = ""
  /\ hin = NoHeaderInput
  /\ hout = NotReturned
  /\ idin = NoIdentInput
  /\ idout = ""

Verify ==
  /\ vout = "pending"
  /\ vout' = IF verifyClerkWebhook(vin.payload, HeaderOf(vin), vin.secret)
             THEN "true" ELSE "false"
  /\ UNCHANGED <<limiterVars, now, issued, inflight, done, vin, hook, hookOut,
                 WEBHOOK_SECRET, headerVars, identVars>>

NextVerify == Verify

SpecVerify == InitVerify /\ [][NextVerify]_vars

\* Both checks are called on the header drawn, at the clock reading drawn.
InitHeader ==
  /\ requests = [l \in Limiters |-> << >>]
  /\ now = 0
  /\ last = NoCall
  /\ seen = [l \in Limiters |-> [id \in Identifiers |-> 0]]
  /\ admitted = [l \in Limiters |-> [id \in Identifiers |-> 0]]
  /\ opened = [l \in Limiters |-> [id \in Identifiers |-> -1]]
  /\ unswept = [l \in Limiters |-> << >>]
  /\ regressed = FALSE
  /\ stamps = NoStamps
  /\ issued = 0
  /\ inflight = EmptyBag
  /\ done = NoneDone
  /\ vin = NoInput
  /\ vout = "pending"
  /\ hook = NoHook
  /\ hookOut = NoHookOut
  /\ WEBHOOK_SECRET = ""
  /\ hin \in HeaderInputs
  /\ hout = NotReturned
  /\ idin = NoIdentInput
  /\ idout = ""

CheckHeader ==
  /\ ~hout.returned
  /\ hout' = [returned |-> TRUE,
              verified |-> verifyClerkWebhook(<<"a">>, HeaderText(hin), "whsec_test"),
              fresh |-> isWebhookTimestampValid(HeaderText(hin), hin.at)]
  /\ UNCHANGED <<limiterVars, now, issued, inflight, done, vin, vout, hook,
                 hookOut, WEBHOOK_SECRET, hin, identVars>>

NextHeader == CheckHeader

SpecHeader == InitHeader /\ [][NextHeader]_vars

\* getClientIdentifier is called on the arguments drawn.
InitIdent ==
  /\ requests = [l \in Limiters |-> << >>]
  /\ now = 0
  /\ last = NoCall
  /\ seen = [l \in Limiters |-> [id \in Identifiers |-> 0]]
  /\ admitted = [l \in Limiters |-> [id \in Identifiers |-> 0]]
  /\ opened = [l \in Limiters |-> [id \in Identifiers |-> -1]]
  /\ unswept = [l \in Limiters |-> << >>]
  /\ regressed = FALSE
  /\ stamps = NoStamps
  /\ issued = 0
  /\ inflight = EmptyBag
  /\ done = NoneDone
  /\ vin = NoInput
  /\ vout = "pending"
  /\ hook = NoHook
  /\ hookOut = NoHookOut
  /\ WEBHOOK_SECRET = ""
  /\ hin = NoHeaderInput
  /\ hout = NotReturned
  /\ idin \in IdentInputs
  /\ idout = ""

Identify ==
  /\ idout = ""
  /\ idout' = getClientIdentifier(idin, idin.userId)
  /\ UNCHANGED <<limiterVars, now, issued, inflight, done, vin, vout, hook,
                 hookOut, WEBHOOK_SECRET, headerVars, idin>>

NextIdent == Identify

SpecIdent == InitIdent /\ [][NextIdent]_vars

\* The route module is loaded with or without CLERK_WEBHOOK_SECRET set.
InitWebhook ==
  /\ requests = [l \in Limiters |-> << >>]
  /\ now = 0
  /\ last = NoCall
  /\ seen = [l \in Limiters |-> [id \in Identifiers |-> 0]]
  /\ admitted = [l \in Limiters |-> [id \in Identifiers |-> 0]]
  /\ opened = [l \in Limiters |-> [id \in Identifiers |-> -1]]
  /\ unswept = [l \in Limiters |-> << >>]
  /\ regressed = FALSE
  /\ stamps = NoStamps
  /\ issued = 0
  /\ inflight = EmptyBag
  /\ done = NoneDone
  /\ vin = NoInput
  /\ vout = "pending"
  /\ hook = NoHook
  /\ hookOut = NoHookOut
  /\ WEBHOOK_SECRET \in {"", "whsec_test"}
  /\ hin = NoHeaderInput
  /\ hout = NotReturned
  /\ idin = NoIdentInput
  /\ idout = ""

\* A POST arrives and runs to 'await req.text()' or to its response.
Deliver ==
  \E req \in Deliveries :
    /\ hook.pc = "idle"
    /\ Proceed(req, -1, BeforeText(req, WEBHOOK_SECRET))
    /\ UNCHANGED <<limiterVars, now, issued, inflight, done, vin, vout,
                   WEBHOOK_SECRET, headerVars, identVars>>

\* req.text() settles: it throws, or the handler checks and dispatches.
TextReturns ==
  \E ok \in BOOLEAN :
    /\ hook.pc = "text"
    /\ IF ok
       THEN Proceed(hook.req, now, AfterText(hook.req, WEBHOOK_SECRET, now))
       ELSE Proceed(hook.req, -1, Returns(OuterCatch))
    /\ UNCHANGED <<limiterVars, now, issued, inflight, done, vin, vout,
                   WEBHOOK_SECRET, headerVars, identVars>>

\* syncClerkUser(payload.data) settles.
SyncReturns ==
  \E ok \in BOOLEAN :
    /\ hook.pc = "sync"
    /\ Proceed(hook.req, hook.checkedAt,
               Returns(IF ok THEN Success(hook.type, "", "syncClerkUser")
                       ELSE Failure(500, "User sync failed", "syncClerkUser")))
    /\ UNCHANGED <<limiterVars, now, issued, inflight, done, vin, vout,
                   WEBHOOK_SECRET, headerVars, identVars>>

\* prisma.user.findUnique(...) settles.
LookupReturns ==
  \E ok \in BOOLEAN :
    /\ hook.pc = "lookup"
    /\ Proceed(hook.req, hook.checkedAt,
               Returns(IF ok
                       THEN Success("user.deleted", "User deletion acknowledged",
                                    "findUnique")
                       ELSE Failure(500, "User deletion failed", "findUnique")))
    /\ UNCHANGED <<limiterVars, now, issued, inflight, done, vin, vout,
                   WEBHOOK_SECRET, headerVars, identVars>>

\* More than the tolerance passes, at most MaxElapsed times.
Elapse ==
  /\ now < MaxElapsed * (toleranceSeconds + 1) * 1000
  /\ now' = now + (toleranceSeconds + 1) * 1000
  /\ UNCHANGED <<limiterVars, issued, inflight, done, webVars>>

NextWebhook ==
  Tick \/ Elapse \/ Deliver \/ TextReturns \/ SyncReturns \/ LookupReturns

SpecWebhook == InitWebhook /\ [][NextWebhook]_vars

\* The promises the handler awaits settle: req.text(), syncClerkUser(...)
\* and prisma.user.findUnique(...) each resolve or reject.
Settles == TextReturns \/ SyncReturns \/ LookupReturns

NextSettles == Elapse \/ Deliver \/ Settles

SpecWebhookSettles == InitWebhook /\ [][NextSettles]_vars /\ WF_vars(Settles)

(***************************************************************************)
(* Properties of the limiter.                                              *)
(***************************************************************************)
MaxRequests(l) == rateLimiters[l].maxRequests
WindowMs(l) == rateLimiters[l].windowMs

\* Whether this step holds an isAllowed call for id on limiter l.
Called(l, id) ==
  seen'[l][id] # seen[l][id] \/ opened'[l][id] # opened[l][id]

\* C1 (window admission bound): the k-th call for an identifier since its
\* window was opened at t0 returns allowed with remaining = N - k when
\* k <= N, and is denied with remaining 0 and resetTime t0 + windowMs when
\* k > N, on each of the four limiters.
C1_WindowAdmissionBound ==
  last.limiter # "none" =>
    LET l == last.limiter
        k == seen[l][last.identifier]
    IN  IF k <= MaxRequests(l)
        THEN /\ last.result.allowed
             /\ last.result.remaining = MaxRequests(l) - k
        ELSE /\ ~last.result.allowed
             /\ last.result.remaining = 0
             /\ last.result.resetTime = opened[l][last.identifier] + WindowMs(l)

\* The api limiter denies call N+2 made exactly at t0 + windowMs.
C1_Witness ==
  /\ last.limiter = "api"
  /\ seen["api"][last.identifier] = MaxRequests("api") + 2
  /\ last.at = opened["api"][last.identifier] + WindowMs("api")
  /\ ~last.result.allowed

\* C2 (concurrent admission bound): however the middleware invocations for
\* one identifier and one limiter interleave at their awaits, the calls
\* answered allowed:true within one window never exceed maxRequests (each
\* isAllowed runs inside one synchronous stretch of its handler).
C2_ConcurrentAdmissionBound ==
  \A l \in Limiters : \A id \in Identifiers : admitted[l][id] <= MaxRequests(l)

\* An invocation has just been turned away with 429 from the full ai window
\* while another one for the same user is still awaiting auth().
C2_Witness ==
  /\ done.response.status = 429
  /\ done.req.path = "/api/generate-note"
  /\ admitted["ai"]["user:u1"] = MaxRequests("ai")
  /\ \E h \in Suspended :
       h.pc = "auth" /\ h.req.path = "/api/generate-note" /\ h.req.session = "u1"

\* C3 (window rollover): a call made after the stored window's resetTime
\* is allowed with remaining = N - 1 and resetTime = now + windowMs, and
\* stores a fresh window with count 1 whatever the old count was.
C3_WindowRollover ==
  (last.limiter # "none" /\ last.had /\ last.at > last.before.resetTime) =>
    /\ last.result = [allowed |-> TRUE,
                      remaining |-> MaxRequests(last.limiter) - 1,
                      resetTime |-> last.at + WindowMs(last.limiter)]
    /\ last.after = [count |-> 1, resetTime |-> last.at + WindowMs(last.limiter)]

\* A full window (calls were denied in it) is replaced one millisecond
\* after its resetTime.
C3_Witness ==
  /\ last.limiter = "notes"
  /\ last.had
  /\ last.before.count = MaxRequests("notes")
  /\ last.at = last.before.resetTime + 1
  /\ last.after.count = 1

\* C4 (a denied call does not mutate): a call on a live window whose count
\* has reached maxRequests returns {allowed: false, remaining: 0,
\* resetTime: the window's} and leaves the stored window as it was.
C4_DeniedCallDoesNotMutate ==
  (/\ last.limiter # "none"
   /\ last.had
   /\ last.at <= last.before.resetTime
   /\ last.before.count >= MaxRequests(last.limiter)) =>
    /\ last.result = [allowed |-> FALSE, remaining |-> 0,
                      resetTime |-> last.before.resetTime]
    /\ last.after = last.before

\* The auth limiter denies a call at the last instant of a full window.
C4_Witness ==
  /\ last.limiter = "auth"
  /\ last.had
  /\ last.before.count = MaxRequests("auth")
  /\ last.at = last.before.resetTime
  /\ ~last.result.allowed

\* C5 (count invariant): every stored window has 1 <= count <= maxRequests
\* and count is the number of calls admitted since the window was created.
C5_CountInvariant ==
  \A l \in Limiters : \A id \in DOMAIN requests[l] :
    /\ 1 <= requests[l][id].count
    /\ requests[l][id].count <= MaxRequests(l)
    /\ requests[l][id].count = admitted[l][id]

\* A second window of the ai limiter is full after calls were denied in it,
\* and the clock has been set back to before that window was opened.
C5_Witness ==
  \E id \in DOMAIN requests["ai"] :
    /\ requests["ai"][id].count = MaxRequests("ai")
    /\ seen["ai"][id] > MaxRequests("ai")
    /\ opened["ai"][id] > 0
    /\ now < opened["ai"][id]

\* C6 (policy isolation): a step without a call on limiter l leaves the
\* Map of l as it is, and the decision of a call on l follows from the
\* calls made to l alone.
C6_PolicyIsolation ==
  [][\A l \in Limiters :
       /\ (\A id \in Identifiers : ~Called(l, id)) => requests'[l] = requests[l]
       /\ \A id \in Identifiers :
            Called(l, id) =>
              /\ last'.limiter = l
              /\ last'.result.allowed = (seen'[l][id] <= MaxRequests(l))]_vars

\* One identifier holds windows in two limiters.
C6_Witness ==
  /\ last.limiter = "notes"
  /\ last.identifier \in DOMAIN requests["ai"]
  /\ last.identifier \in DOMAIN requests["notes"]

\* C7 (identifier isolation): within one limiter a step without a call for
\* b leaves b's live window as it is (the sweep included), and the quota
\* reported to b is what b's own calls have used.
C7_IdentifierIsolation ==
  [][\A l \in Limiters : \A b \in Identifiers :
       /\ (/\ b \in DOMAIN requests[l]
           /\ now <= requests[l][b].resetTime
           /\ ~Called(l, b)) =>
            /\ b \in DOMAIN requests'[l]
            /\ requests'[l][b] = requests[l][b]
       /\ (Called(l, b) /\ last'.result.allowed) =>
            last'.result.remaining = MaxRequests(l) - admitted'[l][b]]_vars

\* Two identifiers hold live windows in the auth limiter.
C7_Witness ==
  /\ last.limiter = "auth"
  /\ DOMAIN requests["auth"] = Identifiers
  /\ \A b \in Identifiers : now <= requests["auth"][b].resetTime

\* The request the webhook handler is on, or answered last.
HookReq == IF hook.pc = "idle" THEN hookOut.req ELSE hook.req

HookCheckedAt == IF hook.pc = "idle" THEN hookOut.checkedAt ELSE hook.checkedAt

\* A business step has been reached for that request.
BusinessStep ==
  \/ hook.pc \in {"sync", "lookup"}
  \/ hookOut.response.ran # "none"
  \/ hookOut.response.success

TimestampHeld == isWebhookTimestampValid(HookReq.signature, HookCheckedAt)

SignatureHeld == verifyClerkWebhook(HookReq.body, HookReq.signature, WEBHOOK_SECRET)

ShapeHeld ==
  JSONparse(HookReq.body).ok /\ isValidClerkWebhook(JSONparse(HookReq.body).value)

\* C8 (webhook acceptance gate): a business step (syncClerkUser, the
\* user.deleted lookup, a success response) is reached only for a request
\* on which isWebhookTimestampValid, verifyClerkWebhook and
\* isValidClerkWebhook all hold; a request on which the handler made its
\* checks is answered 401 without a business step when the timestamp or
\* the signature check fails, and 400 without one when the shape check
\* fails.
C8_AcceptanceGate ==
  /\ BusinessStep => (TimestampHeld /\ SignatureHeld /\ ShapeHeld)
  /\ (hookOut.checkedAt # -1 /\ ~(TimestampHeld /\ SignatureHeld)) =>
       (hookOut.response.status = 401 /\ ~BusinessStep)
  /\ (/\ hookOut.checkedAt # -1
      /\ TimestampHeld
      /\ SignatureHeld
      /\ JSONparse(HookReq.body).ok
      /\ ~ShapeHeld) =>
       (hookOut.response.status = 400 /\ ~BusinessStep)

\* A signed, fresh user.created event has been synced and answered.
C8_Witness ==
  /\ hookOut.response.ran = "syncClerkUser"
  /\ hookOut.response.success
  /\ hookOut.req.body = <<BodyCreated>>
  /\ hookOut.checkedAt > 0

\* The call has returned; the digest after 'v1=' is the expected one.
Returned == vout # "pending"

SignedHeader == Returned /\ vin.variant = "exact"

HasComma(s) == \E i \in 1..Len(s) : s[i] = ","

\* C9 as stated (signature round trip): for every non-empty secret, payload
\* and timestamp string, verifyClerkWebhook accepts the payload under the
\* header 't=<timestamp>,v1=<hex HMAC of timestamp.payload>' and rejects,
\* under the same header, a payload that differs in one character.
C9_RoundTripEveryTimestamp ==
  SignedHeader =>
    /\ vin.payload = vin.signed => vout = "true"
    /\ vin.payload \in OneCharOff(vin.signed) => vout = "false"

\* C9 (signature round trip, timestamps without a comma): for every
\* non-empty secret and payload and every non-empty timestamp string that
\* holds no comma, verifyClerkWebhook accepts the payload under the header
\* 't=<timestamp>,v1=<hex HMAC of timestamp.payload>' and rejects, under
\* the same header, a payload that differs in one character.
C9_RoundTrip ==
  (SignedHeader /\ ~HasComma(vin.timestamp)) =>
    /\ vin.payload = vin.signed => vout = "true"
    /\ vin.payload \in OneCharOff(vin.signed) => vout = "false"

\* A payload is accepted under a header whose timestamp is not a number.
C9_Witness ==
  /\ SignedHeader
  /\ vin.timestamp = <<"x">>
  /\ vin.payload = vin.signed
  /\ vin.payload = <<"a", "b">>
  /\ vout = "true"

\* C10 (digest comparison): verifyClerkWebhook returns true only if the
\* digest string after 'v1=' and the expected hex digest denote the same
\* digest, and returns false whenever the string after 'v1=' is not as long
\* as the expected hex digest of 2 * DigestBytes characters.
C10_LengthMismatchRejected ==
  Returned =>
    LET provided == Provided(vin.variant, ExpectedOf(vin))
    IN  /\ vout = "true" => ToUpper(provided) = ToUpper(ExpectedOf(vin))
        /\ Len(provided) # 2 * DigestBytes => vout = "false"

\* C11 (malformed header handling): for every signature header without a
\* 'v1=' part, and for every header without a 't=' part, verifyClerkWebhook
\* and isWebhookTimestampValid both return false; a header that is only a
\* fresh 't=<now>' part is not reported fresh.
C11_MalformedHeaderRejected ==
  (hout.returned /\ hin.shape \in {"noV1", "noT", "neither"}) =>
    (~hout.verified /\ ~hout.fresh)

\* C12 (timestamp tolerance boundary): on a header with a 't=' part,
\* isWebhookTimestampValid returns true exactly when the decimal timestamp
\* is within toleranceSeconds of floor(Date.now() / 1000), both ends
\* included, and false when the text after 't=' holds no number.
C12_ToleranceBoundary ==
  (hout.returned /\ hin.shape \in {"full", "noV1", "emptyV1"}) =>
    /\ hin.kind = "decimal" => (hout.fresh <=> Abs(hin.offset) <= toleranceSeconds)
    /\ hin.kind \in {"junk", "empty"} => ~hout.fresh

\* The timestamp 300 seconds before a clock reading of 400.999 s is fresh.
C12_Witness ==
  /\ hout.returned
  /\ hin.shape = "full"
  /\ hin.kind = "decimal"
  /\ hin.at = 400999
  /\ hin.offset = -toleranceSeconds
  /\ hout.fresh

\* The request in hand carries timestamp ts in its header, as delivered.
Carries(ts) ==
  \/ HookReq.signature = <<"t", "=">> \o ts
  \/ StartsWith(HookReq.signature, <<"t", "=">> \o ts \o <<",">>)

\* The handler made its checks on it when it was stale.
CheckedStale ==
  /\ HookCheckedAt # -1
  /\ \E ts \in HookTimestamps :
       /\ Carries(ts)
       /\ \A i \in 1..Len(ts) : DigitVal(ts[i]) # -1
       /\ HookCheckedAt \div 1000 > DecimalValue(ts) + toleranceSeconds

\* Its t= value was changed and the digest of the capture kept.
Redated ==
  \E ts \in HookTimestamps :
    HookReq.signature = Signature("redated", ts, HookReq.body)

\* C13 (replay rejection): the clock of the handler only advances; a
\* request checked at a time more than toleranceSeconds after the timestamp
\* of its header is rejected without a business step, and so is a request
\* whose t= value was changed while the v1= digest was kept.
C13_ReplayRejected ==
  /\ [][now' >= now]_vars
  /\ []((CheckedStale \/ Redated) =>
          /\ ~BusinessStep
          /\ (hook.pc = "idle" /\ hookOut.response.status # 0) =>
               hookOut.response.status \in {401, 500})

\* The signed user.created event, fresh when captured, is delivered again
\* after the tolerance has passed and is answered 401.
C13_Witness ==
  /\ hookOut.req = [signature |-> Signature("signed", <<"1">>, <<BodyCreated>>),
                    body |-> <<BodyCreated>>]
  /\ hookOut.checkedAt \div 1000 > 1 + toleranceSeconds
  /\ hookOut.response.status = 401
  /\ WEBHOOK_SECRET = "whsec_test"

\* C14 (missing secret fails closed): when CLERK_WEBHOOK_SECRET is not set,
\* every POST, whatever its headers and body, is answered 500 'Webhook not
\* configured' without a business step, never 401.
C14_MissingSecretIsConfigurationError ==
  (WEBHOOK_SECRET = "" /\ hookOut.response.status # 0) =>
    /\ hookOut.response.status = 500
    /\ hookOut.response.error = "Webhook not configured"
    /\ ~BusinessStep

(***************************************************************************)
(* Properties of the middleware.                                           *)
(***************************************************************************)
\* The requests the handler is running for before or after this step; the
\* requests of one run all take the same branch with the same identifier.
StepRequests ==
  {h.req : h \in BagToSet(inflight) \cup BagToSet(inflight')} \cup
  ({done'.req} \ {NoRequest})

\* The limiters consulted in this step.
Consulted == {l \in Limiters : \E id \in Identifiers : Called(l, id)}

\* The precedence of the claim, on the matchers.
Precedence(p) ==
  CASE isAIRoute(p) -> "ai"
    [] ~isAIRoute(p) /\ isNotesAPIRoute(p) -> "notes"
    [] ~isAIRoute(p) /\ ~isNotesAPIRoute(p) /\ isAuthRoute(p) -> "auth"
    [] ~isAIRoute(p) /\ ~isNotesAPIRoute(p) /\ ~isAuthRoute(p) /\ startsWithApi(p) -> "api"
    [] OTHER -> "none"

\* C15 (classification precedence): a step of the middleware consults at
\* most one limiter, and the limiter consulted for a request is the one its
\* path selects in the order ai, notes, auth, api, none.
C15_ClassificationPrecedence ==
  [][/\ Cardinality(Consulted) <= 1
     /\ \A l \in Consulted : \A r \in StepRequests : l = Precedence(r.path)]_vars

\* A request for /api/notes, which also starts with /api/, has been counted
\* by the notes limiter and by no other.
C15_Witness ==
  /\ last.limiter = "notes"
  /\ \E h \in Suspended : h.pc = "finalProtect" /\ h.req.path = "/api/notes"
  /\ \A id \in Identifiers : seen["api"][id] = 0
  /\ \E id \in Identifiers : seen["notes"][id] > 0

\* C16 (identifier resolution): getClientIdentifier returns 'user:' +
\* userId for a non-empty userId whatever the headers; otherwise 'ip:' + the
\* first element of x-forwarded-for when that is non-empty, else 'ip:' +
\* x-real-ip when that is non-empty, else 'ip:unknown'.
C16_IdentifierResolution ==
  idout # "" =>
    idout = IF idin.userId # "" THEN "user:" \o idin.userId
            ELSE IF idin.forwarded # << >> /\ idin.forwarded[1] # ""
            THEN "ip:" \o idin.forwarded[1]
            ELSE IF idin.realIp # "" THEN "ip:" \o idin.realIp
            ELSE "ip:unknown"

\* An empty first x-forwarded-for element gives way to x-real-ip.
C16_Witness ==
  /\ idin.userId = ""
  /\ idin.forwarded = <<"", "5.6.7.8">>
  /\ idin.realIp = "9.9.9.9"
  /\ idout = "ip:9.9.9.9"

\* The invocations that reach the authentication logic's auth.protect()
\* in this step, and those that come back from it.
NewFinal ==
  {h \in BagToSet(inflight') :
     h.pc = "finalProtect" /\ CopiesIn(h, inflight') > CopiesIn(h, inflight)}

RetiredFinal ==
  {h \in BagToSet(inflight) :
     h.pc = "finalProtect" /\ CopiesIn(h, inflight) > CopiesIn(h, inflight')}

\* In this step an invocation leaves the rate-limit block: it goes on to
\* the authentication logic or returns from the handler.
LeavesBlock ==
  \/ NewFinal # {}
  \/ done'.req # NoRequest /\ RetiredFinal = {}

\* The request of that invocation.
Leaving == {h.req : h \in NewFinal} \cup ({done'.req} \ {NoRequest})

UserElseIp == {"ai", "notes", "api"}

IpIdentifier(r) == "ip:" \o r.forwarded[1]

\* C17 (identifier basis 'user, else IP'): on the AI, notes and general API
\* routes the limiter is called with 'user:<id>' for a request with an
\* authenticated actor and with the 'ip:' identifier otherwise, and a
\* request without an authenticated actor on these routes is counted
\* against its 'ip:' identifier.
C17_UserElseIp ==
  [][/\ \A l \in UserElseIp : \A id \in Identifiers :
          Called(l, id) =>
            \A r \in StepRequests :
              id = IF r.session # "" THEN "user:" \o r.session ELSE IpIdentifier(r)
     /\ LeavesBlock =>
          \A r \in Leaving :
            (r.session = "" /\ Precedence(r.path) \in UserElseIp) =>
              Called(Precedence(r.path), IpIdentifier(r))]_vars

\* C18 (identity-resolution failure falls back to IP): a request on a
\* rate-limited route whose auth.protect() or auth() throws is not failed by
\* the throw and is still counted by the route's limiter, under its 'ip:'
\* identifier, before it goes on.
C18_AuthFailureStillCounted ==
  [][LeavesBlock =>
       \A r \in Leaving :
         Precedence(r.path) \in UserElseIp =>
           /\ Consulted = {Precedence(r.path)}
           /\ (\A id \in Identifiers :
                 Called(Precedence(r.path), id) =>
                   id \in {IpIdentifier(r), "user:" \o r.session})]_vars

\* The least n with n * 1000 >= ms.
SecondsUp(ms) == CHOOSE n \in -10..1000 : n * 1000 >= ms /\ (n - 1) * 1000 < ms

\* C19 (rejection on deny): when the limiter consulted answers allowed =
\* false, the handler returns in the same step a 429 JSON response with the
\* window's resetTime in its body and the headers X-RateLimit-Remaining 0,
\* X-RateLimit-Reset ceil(resetTime / 1000) and Retry-After
\* ceil((resetTime - now) / 1000); the request does not go on.
C19_RejectionOnDeny ==
  [][(Consulted # {} /\ ~last'.result.allowed) =>
       /\ NewFinal = {}
       /\ done'.req # NoRequest
       /\ done'.response.kind = "json"
       /\ done'.response.status = 429
       /\ done'.response.resetTime = last'.result.resetTime
       /\ done'.response.headers["X-RateLimit-Remaining"] = 0
       /\ done'.response.headers["X-RateLimit-Reset"] =
            SecondsUp(last'.result.resetTime)
       /\ done'.response.headers["Retry-After"] =
            SecondsUp(last'.result.resetTime - now')]_vars

\* A denied request is answered 429 with a Retry-After that was rounded up.
C19_Witness ==
  /\ done.response.status = 429
  /\ done.req.path = "/api/generate-note"
  /\ done.response.headers["Retry-After"] * 1000 > done.response.resetTime - now

\* The three headers of a rejection.
QuotaHeaders == {"Retry-After", "X-RateLimit-Remaining", "X-RateLimit-Reset"}

\* C20 (quota metadata on acceptance): when the limiter consulted answers
\* allowed = true, the response that goes on carries Retry-After,
\* X-RateLimit-Remaining = the decision's remaining and X-RateLimit-Reset =
\* ceil(resetTime / 1000).
C20_QuotaHeadersOnAcceptance ==
  [][(Consulted # {} /\ last'.result.allowed) =>
       \A response \in {h.response : h \in NewFinal} \cup
                       (IF done'.req # NoRequest THEN {done'.response} ELSE {}) :
         /\ QuotaHeaders \subseteq DOMAIN response.headers
         /\ response.headers["X-RateLimit-Remaining"] = last'.result.remaining
         /\ response.headers["X-RateLimit-Reset"] =
              SecondsUp(last'.result.resetTime)]_vars

\* C21 (webhook requests bypass rate limiting): for a request to
\* /api/clerk-webhook the middleware consults no rate limiter, so that it
\* uses no quota under any identifier, and never answers it with 429.
C21_WebhookBypassesLimiter ==
  [][\A r \in StepRequests :
       r.path = "/api/clerk-webhook" =>
         /\ Consulted = {}
         /\ requests' = requests
         /\ done'.req = r => done'.response.status # 429]_vars

\* C22 (unclassified requests are a no-op): for a request whose path is in
\* none of the four route classes the middleware leaves the maps of all
\* limiters as they are, does not answer 429 and attaches none of the
\* X-RateLimit-* and Retry-After headers to the response.
C22_UnclassifiedNoOp ==
  [][\A r \in StepRequests :
       Precedence(r.path) = "none" =>
         /\ requests' = requests
         /\ Consulted = {}
         /\ \A response \in {h.response : h \in NewFinal} \cup
                            (IF done'.req # NoRequest THEN {done'.response} ELSE {}) :
              /\ response.status # 429
              /\ DOMAIN response.headers = {}]_vars

\* A request for / has returned with the plain response, and no limiter
\* holds a window.
C22_Witness ==
  /\ done.req.path = "/"
  /\ done.req.session = "u1"
  /\ done.response = Plain
  /\ \A l \in Limiters : requests[l] = << >>

\* C23 (authentication routes are counted by IP only): for every request to
\* the sign-in and sign-up routes, with or without a session, the identifier
\* the auth limiter is called with is the 'ip:' identifier of the request
\* and not 'user:' + its session.
C23_AuthRoutesIpOnly ==
  [][\A id \in Identifiers :
       Called("auth", id) =>
         \A r \in StepRequests :
           /\ isAuthRoute(r.path)
           /\ id = IpIdentifier(r)
           /\ id # "user:" \o r.session]_vars

\* A sign-in request that carries a session has been counted under its IP.
C23_Witness ==
  /\ done.req.path = "/sign-in"
  /\ done.req.session = "u1"
  /\ last.limiter = "auth"
  /\ last.identifier = "ip:1.2.3.4"
  /\ "user:u1" \notin DOMAIN requests["auth"]

(***************************************************************************)
(* Further properties of the webhook route.                                *)
(***************************************************************************)
\* The response POST gives a delivery that carries a header, when the
\* secret is set and the checks are made at clock value t.
AnswerAt(req, t) == AfterText(req, WEBHOOK_SECRET, t)

\* C24 (uniform webhook rejection): two POSTs that both fail
\* authentication, whichever check each fails, get responses equal in status
\* and body: a 401 just returned equals the 401 any other delivery is
\* answered at the same clock value.
C24_UniformRejection ==
  (hookOut.response.status = 401 /\ hookOut.checkedAt # -1) =>
    \A req \in Deliveries :
      (/\ req.signature # << >>
       /\ AnswerAt(req, hookOut.checkedAt).pc = "returned"
       /\ AnswerAt(req, hookOut.checkedAt).response.status = 401) =>
        /\ AnswerAt(req, hookOut.checkedAt).response.status = hookOut.response.status
        /\ AnswerAt(req, hookOut.checkedAt).response.error = hookOut.response.error

\* The statuses POST answers with.
HookStatuses == {200, 400, 401, 500}

\* C25 (no exception escapes the webhook handler): whatever the request and
\* whether req.text(), JSON.parse, syncClerkUser, findUnique or the
\* verification helpers throw, a run of POST ends, once what it awaits has
\* settled, by returning one response, of status 200, 400, 401 or 500, for
\* its request, and returns nothing before that.
C25_NoExceptionEscapes ==
  /\ [](hookOut = NoHookOut \/ hookOut.response.status \in HookStatuses)
  /\ [](hook.pc # "idle" => hookOut = NoHookOut)
  /\ [][(hook.pc # "idle" /\ hook'.pc = "idle") =>
          /\ hookOut'.req = hook.req
          /\ hookOut'.response.status \in HookStatuses]_vars
  /\ (hook.pc # "idle") ~> (hook.pc = "idle" /\ hookOut.response.status \in HookStatuses)

\* The log line of a signed delivery with data: null threw a TypeError,
\* which was answered 500.
C25_Witness ==
  /\ hookOut.req.body = <<BodyNullData>>
  /\ hookOut.checkedAt # -1
  /\ hookOut.response.status = 500
  /\ hookOut.response.error = "Internal server error"

(***************************************************************************)
(* Properties of the sweep.                                                *)
(***************************************************************************)
\* The entry of id in the Map of limiter l has run out.
Stale(l, id) == id \in DOMAIN requests[l] /\ requests[l][id].resetTime < now

\* The Map of limiter l after a call for id that takes the cleanup branch.
Swept(l, id) ==
  isAllowed(requests[l], WindowMs(l), MaxRequests(l), id, now, TRUE).map

\* C26 (stale windows are eventually swept): when calls keep arriving and
\* the cleanup branch keeps being taken, an entry whose resetTime has passed
\* is eventually deleted or replaced by a fresh window; and right after a
\* call that sweeps at time now the Map holds no entry with resetTime < now.
C26_StaleEventuallySwept ==
  /\ [](\A l \in Limiters, id \in Identifiers :
          \A x \in DOMAIN Swept(l, id) : Swept(l, id)[x].resetTime >= now)
  /\ \A l \in Limiters, id \in Identifiers :
       Stale(l, id) ~> (id \notin DOMAIN requests[l] \/ requests[l][id].resetTime >= now)

\* The stale entry of an identifier that did not call again has been
\* deleted by the sweeping call of the other identifier.
C26_Witness ==
  \E l \in Limiters, id \in Identifiers :
    /\ opened[l][id] # -1
    /\ id \notin DOMAIN requests[l]
    /\ last.limiter = l
    /\ last.identifier # id
    /\ last.at > opened[l][id] + WindowMs(l)

\* What the call made in this step would have returned had no call so far
\* run cleanup.
UnsweptResult(l, id) ==
  isAllowed(unswept[l], WindowMs(l), MaxRequests(l), id, now, FALSE).result

\* cleanup deletes only entries that have run out, and a call that finds
\* its own entry run out stores the fresh window.
SweepSpares ==
  \A l \in Limiters :
    /\ \A x \in DOMAIN requests[l] \ DOMAIN requests'[l] :
         now > requests[l][x].resetTime
    /\ \A id \in Identifiers :
         (Called(l, id) /\ id \in DOMAIN requests[l]
            /\ now > requests[l][id].resetTime) =>
           /\ id \in DOMAIN requests'[l]
           /\ requests'[l][id] = [count |-> 1, resetTime |-> now + WindowMs(l)]

\* C27 as stated (the sweep is invisible to decisions): for every sequence
\* of calls and clock values each call returns what it would have returned
\* had no call run cleanup.
C27_SweepInvisibleAnyClock ==
  [][/\ \A l \in Limiters, id \in Identifiers :
          Called(l, id) => last'.result = UnsweptResult(l, id)
     /\ SweepSpares]_vars

\* C27 (the sweep is invisible to decisions): for every sequence of calls
\* and clock values that do not decrease, each call returns what it would
\* have returned had no call run cleanup; cleanup removes only entries with
\* now > resetTime, and a call whose own entry had run out stores the fresh
\* window with count 1 whether or not cleanup deleted the entry first.
C27_SweepInvisible ==
  [][/\ \A l \in Limiters, id \in Identifiers :
          (Called(l, id) /\ ~regressed) => last'.result = UnsweptResult(l, id)
     /\ SweepSpares]_vars

\* A sweep has deleted an entry the unswept Map still holds, and a later
\* call was admitted.
C27_Witness ==
  \E l \in Limiters :
    /\ ~regressed
    /\ DOMAIN requests[l] # DOMAIN unswept[l]
    /\ last.limiter = l
    /\ last.had
    /\ last.result.allowed

(***************************************************************************)
(* The fixed window over a sliding interval.                               *)
(***************************************************************************)
\* The calls for id on limiter l answered allowed:true at a time in
\* [from, to]: the size of the bag of their times.
Admissions(l, id, from, to) ==
  BagCardinality(
    [t \in {x \in SlidingInstants :
              from <= x /\ x <= to /\ stamps[l][id][x] > 0} |-> stamps[l][id][t]])

\* C28 (sliding-interval bound of the fixed window): with a clock that does
\* not decrease, for every limiter and identifier the calls answered
\* allowed:true within any time interval of length windowMs number at most
\* 2 * maxRequests, and those within the lifetime [creation, resetTime] of a
\* stored window at most maxRequests.  (An interval that holds an admission
\* holds no more of them than the interval of that length that starts at
\* its first one.)
C28_SlidingIntervalBound ==
  \A l \in Limiters, id \in Identifiers :
    /\ \A s \in SlidingInstants :
         stamps[l][id][s] > 0 =>
           Admissions(l, id, s, s + WindowMs(l)) <= 2 * MaxRequests(l)
    /\ id \in DOMAIN requests[l] =>
         Admissions(l, id, requests[l][id].resetTime - WindowMs(l),
                    requests[l][id].resetTime) <= MaxRequests(l)

\* An interval of length windowMs holds all but the first admission of one
\* window of the general API limiter and every admission of the next.
C28_Witness ==
  \E id \in Identifiers : \E s \in SlidingInstants :
    /\ Admissions("api", id, s, s + WindowMs("api")) = 2 * MaxRequests("api") - 1
    /\ id \in DOMAIN requests["api"]
    /\ requests["api"][id].count = MaxRequests("api")

\* C29 (Retry-After range): in every 429 response the middleware builds,
\* Retry-After is an integer from 0 to ceil(windowMs / 1000) = 60, whatever
\* the clock reads when the response is built.
C29_RetryAfterRange ==
  [][(Consulted # {} /\ ~last'.result.allowed) =>
       /\ done'.response.status = 429
       /\ done'.response.headers["Retry-After"] >= 0
       /\ \A l \in Consulted :
            done'.response.headers["Retry-After"] <= Ceil(WindowMs(l), 1000)]_vars

\* C30 (X-RateLimit-Limit matches the policy): in every 429 response the
\* X-RateLimit-Limit header is maxRequests of the limiter that denied the
\* request: 5 on the AI routes, 50 on the notes routes, 100 on the general
\* API routes and 10 on the authentication routes.
C30_LimitHeaderMatchesPolicy ==
  [][(Consulted # {} /\ ~last'.result.allowed) =>
       /\ done'.response.status = 429
       /\ \A l \in Consulted :
            /\ done'.response.headers["X-RateLimit-Limit"] = rateLimiters[l].maxRequests
            /\ rateLimiters[l].maxRequests =
                 CASE l = "ai" -> 5 [] l = "notes" -> 50
                   [] l = "api" -> 100 [] l = "auth" -> 10]_vars


====
